---- MODULE Spec2Model ----
(***************************************************************************)
(* Model of src/train.py: the textual-inversion / custom-diffusion         *)
(* fine-tuning driver.  One run of main() is a sequential process; pc is   *)
(* the position of main() between the blocks of the file.                  *)
(*                                                                         *)
(* Numbers.  An embedding row is one integer (embedding dimension 1).      *)
(* Learning rates are integers in units of the configured --lr, and the    *)
(* weight decay of AdamW is the rational WeightDecayNum / WeightDecayDen   *)
(* (0.01).  Rows are held in a number format fine enough to register one   *)
(* decay step (as float32 is for lr * 0.01): pretrained rows are multiples *)
(* of 100 and results are rounded to the nearest integer.                  *)
(***************************************************************************)
EXTENDS Integers, Sequences, FiniteSets, TLC

\* ---------------------------------------------------------------- bounds
MaxTokens     == 2   \* longest '+'-joined list on the command line
MaxBatch      == 2   \* largest --batch_size
MaxImages     == 3   \* largest len(train_dataset)
MaxTrainSteps == 3   \* largest --train_steps
MaxSaveStep   == 2   \* largest --save_step
LR            == 1   \* the configured --lr, in model units

\* ------------------------------------------------------ program constants
WeightDecayNum == 1    \* weight_decay=0.01
WeightDecayDen == 100
Beta1Num       == 9    \* betas=(0.9, ...)
Beta1Den       == 10

\* ------------------------------------------------------------- utilities
\* Python lists are 0-based; a table indexed by token id is a function on 0..n-1.
Size(f) == Cardinality(DOMAIN f)

Ids(f) == 0 .. (Size(f) - 1)

Sign(x) == IF x > 0 THEN 1 ELSE IF x < 0 THEN -1 ELSE 0

\* round-to-nearest quotient, as the number format rounds a product
RoundDiv(x, d) == (2 * x + d) \div (2 * d)

\* math.ceil(x / d) for positive d
Ceil(x, d) == (x + d - 1) \div d

RECURSIVE Pow(_, _)
Pow(b, e) == IF e = 0 THEN 1 ELSE b * Pow(b, e - 1)

Min(x, y) == IF x <= y THEN x ELSE y

\* ---------------------------------------------------------------- inputs
Types == {"text", "custom"}

\* names the user may give to --token
Names == {"a", "b"}

\* words the user may give to --term: a pretrained word, or the literal text
\* of a modifier token
TermWords == {"cat", "<a>"}

ListsOf(S) == UNION { [1..n -> S] : n \in 1..MaxTokens }

\* the pretrained tokenizer and the pretrained token-embedding table
PretrainedVocab == [i \in 0..1 |-> IF i = 0 THEN "cat" ELSE "<"]

PretrainedEmbeds == [i \in 0..1 |-> 100 * (i + 1)]

\* values resize_token_embeddings may leave in a fresh row (random init)
FreshRows == {0, 700}

\* the checkpoint file --delta_ckpt points at: the modifier tokens of an
\* earlier run and their learned rows
CkptFile == [modifier_token |-> <<"<a>">>, embeds |-> <<500>>]

\* raw gradient of the loss w.r.t. one embedding row after backward()
Grads == {-1, 1}

\* --freeze_model: the value the code tests for, the default, and another one
FreezeModels == {"crossattn", "crossattn_kv", "none"}

VARIABLES
    a,                \* the argparse namespace (a.lr is rescaled by main)
    num_images,       \* len(train_dataset)
    sampler_ok,       \* whether StableDiffusionPipeline renders without raising
    pc,               \* position of main()
    loaded,           \* model components loaded so far
    delta_loaded,     \* load_delta has been applied
    tokenizer,        \* token id -> token string
    token_embeds,     \* text_encoder.get_input_embeddings().weight.data
    with_prior,
    mod_tokens, init_tokens,
    mod_tokens_id, init_tokens_id,
    optimizer,        \* AdamW: lr, per-row exp_avg, step count, parameter names
    epoch_steps, num_epochs,
    global_step, epoch, step,
    batch,            \* the collated batch of the current iteration
    bsize,            \* latents.shape[0]
    grads,            \* weight.grad of the embedding table
    index_no_updates, \* the mask built at lines 191-193
    ckpts,            \* checkpoint writes so far
    samples,          \* global steps at which sample images were saved
    zip_i,            \* passes made of the zip loop being run (lines 90, 98)
    params,           \* parameter name -> its requires_grad flag and dtype
    loss              \* the batch rows under each mse_loss term of the step

vars == <<a, num_images, sampler_ok, pc, loaded, delta_loaded, tokenizer,
          token_embeds, with_prior, mod_tokens, init_tokens, mod_tokens_id,
          init_tokens_id, optimizer, epoch_steps, num_epochs, global_step,
          epoch, step, batch, bsize, grads, index_no_updates, ckpts, samples,
          zip_i, params, loss>>

Components == {"text_encoder", "tokenizer", "unet", "vae", "scheduler"}

\* ------------------------------------------------------------ parameters
\* the parameters of the loaded modules, each named by its module and the
\* components of its dotted name; one name stands for the tensors under it
VaeParams == {<<"vae", "encoder">>, <<"vae", "decoder">>}

TextEncoderParams ==
    {<<"text_encoder", "text_model", "embeddings", "token_embedding">>,
     <<"text_encoder", "text_model", "embeddings", "position_embedding">>,
     <<"text_encoder", "text_model", "encoder">>,
     <<"text_encoder", "text_model", "final_layer_norm">>}

UnetParams ==
    {<<"unet", "conv_in">>,
     <<"unet", "attn1", "to_q">>, <<"unet", "attn1", "to_k">>,
     <<"unet", "attn2", "to_q">>, <<"unet", "attn2", "to_k">>,
     <<"unet", "attn2", "to_v">>, <<"unet", "attn2", "to_out">>}

Unet0Params == {<<"unet0", "conv_in">>, <<"unet0", "attn2", "to_k">>}

\* text_encoder.get_input_embeddings().parameters()
InputEmbeddings == {<<"text_encoder", "text_model", "embeddings", "token_embedding">>}

\* 'part' in name, both as lists of dotted components
InName(part, name) ==
    \E i \in 1..(Len(name) - Len(part) + 1) : SubSeq(name, i, i + Len(part) - 1) = part

\* the parameter lies under the module named by prefix
Under(prefix, name) ==
    Len(prefix) <= Len(name) /\ SubSeq(name, 1, Len(prefix)) = prefix

\* from_pretrained(..., torch_dtype=torch.float16): requires_grad is True
Pretrained(names) == [p \in names |-> [requires_grad |-> TRUE, dtype |-> "float16"]]

\* module.to(dtype=...) as it acts on the entry r of the parameter called
\* name: the parameters under the module named by prefix are cast
To(r, name, prefix, dtype) ==
    IF Under(prefix, name) THEN [r EXCEPT !.dtype = dtype] ELSE r

\* module.requires_grad_(flag), likewise
RequiresGrad(r, name, prefix, flag) ==
    IF Under(prefix, name) THEN [r EXCEPT !.requires_grad = flag] ELSE r

\* ------------------------------------------------------------- tokenizer
HasToken(tok, t) == \E i \in DOMAIN tok : tok[i] = t

\* tokenizer.convert_tokens_to_ids
IdOf(tok, t) == CHOOSE i \in DOMAIN tok : tok[i] = t

\* tokenizer.add_tokens: a token already in the vocabulary is not added again
AddToken(tok, t) ==
    IF HasToken(tok, t) THEN tok
    ELSE [i \in 0..Size(tok) |-> IF i < Size(tok) THEN tok[i] ELSE t]

\* tokenizer.encode(word, add_special_tokens=False)[0]: a word of the
\* vocabulary is its own first sub-unit; the text of an unregistered
\* "<x>" splits and starts with "<"
EncodeFirst(tok, w) == IF HasToken(tok, w) THEN IdOf(tok, w) ELSE IdOf(tok, "<")

\* text_encoder.resize_token_embeddings(n): existing rows kept, new rows fresh
Resize(emb, n, fresh) == [i \in 0..(n - 1) |-> IF i \in DOMAIN emb THEN emb[i] ELSE fresh]

\* ------------------------------------------------------------------ Init
\* runs that vary the command-line lists; the loop is one step long
SetupRuns ==
    [type : Types, token : ListsOf(Names), term : ListsOf(TermWords),
     data : 1..MaxTokens, term_data : 0..MaxTokens,
     delta_ckpt : {"none", "file"},
     batch_size : {1}, train_steps : {1}, save_step : {1},
     freeze_model : {"crossattn_kv"}, scale_lr : BOOLEAN, lr : {LR}]

\* runs that vary the loop's parameters; one concept, well-formed lists
LoopRuns ==
    [type : Types, token : {<<"a">>}, term : {<<"cat">>},
     data : {1}, term_data : {0, 1},
     delta_ckpt : {"none"},
     batch_size : 1..MaxBatch, train_steps : 1..MaxTrainSteps,
     save_step : 1..MaxSaveStep,
     freeze_model : {"crossattn_kv"}, scale_lr : {TRUE}, lr : {LR}]

\* runs that vary the fine-tuning mode; one concept, one step
ModeRuns ==
    [type : Types, token : {<<"a">>}, term : {<<"cat">>},
     data : {1}, term_data : {0},
     delta_ckpt : {"none"},
     batch_size : {1}, train_steps : {1}, save_step : {1},
     freeze_model : FreezeModels, scale_lr : {TRUE}, lr : {LR}]

\* before line 47 the namespace does not exist: its fields hold placeholders
\* that nothing reads
Unparsed ==
    [type |-> "custom", token |-> << >>, term |-> << >>, data |-> 0, term_data |-> 0,
     delta_ckpt |-> "none", batch_size |-> 0, train_steps |-> 0, save_step |-> 0,
     freeze_model |-> "crossattn_kv", scale_lr |-> FALSE, lr |-> 0]

Init ==
    /\ a = Unparsed
    /\ num_images \in 1..MaxImages
    /\ sampler_ok \in BOOLEAN
    /\ pc = "parse_args"
    /\ loaded = {}
    /\ delta_loaded = FALSE
    /\ tokenizer = << >>
    /\ token_embeds = << >>
    /\ with_prior = FALSE
    /\ mod_tokens = << >>
    /\ init_tokens = << >>
    /\ mod_tokens_id = << >>
    /\ init_tokens_id = << >>
    /\ optimizer = [lr |-> 0, exp_avg |-> << >>, t |-> 0, built |-> FALSE,
                    params |-> {}]
    /\ epoch_steps = 0
    /\ num_epochs = 0
    /\ global_step = 0
    /\ epoch = 0
    /\ step = 0
    /\ batch = [input_ids |-> << >>, images |-> << >>]
    /\ bsize = 0
    /\ grads = << >>
    /\ index_no_updates = << >>
    /\ ckpts = << >>
    /\ samples = {}
    /\ zip_i = 0
    /\ params = << >>
    /\ loss = << >>

\* ----------------------------------------------------- setup, lines 26-99
\* lines 26-47: a = parser.parse_args()
ParseArgs ==
    /\ pc = "parse_args"
    /\ \/ a' \in SetupRuns /\ num_images = 1
       \/ a' \in LoopRuns
       \/ a' \in ModeRuns /\ num_images = 1
    /\ pc' = "load_models"
    /\ UNCHANGED <<num_images, sampler_ok, loaded, delta_loaded, tokenizer,
                   token_embeds, with_prior, mod_tokens, init_tokens, mod_tokens_id,
                   init_tokens_id, optimizer, epoch_steps, num_epochs, global_step,
                   epoch, step, batch, bsize, grads, index_no_updates, ckpts, samples,
                   zip_i, params, loss>>

\* lines 66-72: the pretrained components are loaded
LoadModels ==
    /\ pc = "load_models"
    /\ loaded' = Components
    /\ params' = Pretrained(VaeParams \cup TextEncoderParams \cup UnetParams)
    /\ tokenizer' = PretrainedVocab
    /\ token_embeds' = PretrainedEmbeds
    /\ pc' = "load_delta"
    /\ UNCHANGED <<a, num_images, sampler_ok, delta_loaded, with_prior, mod_tokens,
                   init_tokens, mod_tokens_id, init_tokens_id, optimizer, epoch_steps,
                   num_epochs, global_step, epoch, step, batch, bsize, grads,
                   index_no_updates, ckpts, samples,
                   zip_i, loss>>

RECURSIVE AddTokens(_, _, _)
AddTokens(tok, ts, k) ==
    IF k = 0 THEN tok ELSE AddToken(AddTokens(tok, ts, k - 1), ts[k])

\* util.finetune.load_delta, as far as the tokenizer goes: the checkpoint's
\* modifier tokens are registered
LoadDeltaTokenizer(tok, ck) == AddTokens(tok, ck.modifier_token, Len(ck.modifier_token))

\* util.finetune.load_delta, as far as the embedding table goes: the table is
\* resized and the learned rows are written at the tokens' ids
LoadDeltaEmbeds(tok, emb, ck) ==
    [i \in Ids(tok) |->
        IF \E k \in DOMAIN ck.modifier_token : IdOf(tok, ck.modifier_token[k]) = i
        THEN ck.embeds[CHOOSE k \in DOMAIN ck.modifier_token :
                           IdOf(tok, ck.modifier_token[k]) = i]
        ELSE emb[i]]

\* lines 74-75
LoadDelta ==
    /\ pc = "load_delta"
    /\ IF a.type = "custom" /\ a.delta_ckpt = "file"
       THEN /\ tokenizer' = LoadDeltaTokenizer(tokenizer, CkptFile)
            /\ token_embeds' = LoadDeltaEmbeds(tokenizer', token_embeds, CkptFile)
            /\ delta_loaded' = TRUE
       ELSE UNCHANGED <<tokenizer, token_embeds, delta_loaded,
                   zip_i, params, loss>>
    /\ pc' = "parse_inputs"
    /\ UNCHANGED <<a, num_images, sampler_ok, loaded, with_prior, mod_tokens,
                   init_tokens, mod_tokens_id, init_tokens_id, optimizer, epoch_steps,
                   num_epochs, global_step, epoch, step, batch, bsize, grads,
                   index_no_updates, ckpts, samples,
                   zip_i, params, loss>>

\* line 79: '<%s>' % t
Wrap(t) == "<" \o t \o ">"

\* the two assertions of lines 82 and 85
CountsAgree(x) ==
    /\ Len(x.token) = Len(x.term)
    /\ Len(x.term) = x.data
    /\ (x.term_data # 0 => Len(x.token) = x.term_data)

\* lines 77-85; --term is always given here (without it line 80 raises), so
\* with_prior is whether --term_data was given
ParseInputs ==
    /\ pc = "parse_inputs"
    /\ with_prior' = (a.term_data # 0)
    /\ mod_tokens' = [i \in DOMAIN a.token |-> Wrap(a.token[i])]
    /\ init_tokens' = a.term
    /\ pc' = IF CountsAgree(a) THEN "prepare_tokens" ELSE "AssertionError"
    /\ UNCHANGED <<a, num_images, sampler_ok, loaded, delta_loaded, tokenizer,
                   token_embeds, mod_tokens_id, init_tokens_id, optimizer, epoch_steps,
                   num_epochs, global_step, epoch, step, batch, bsize, grads,
                   index_no_updates, ckpts, samples,
                   zip_i, params, loss>>

\* lines 90-93, one pass of the loop over zip(mod_tokens, init_tokens): the
\* value add_tokens returns is not looked at
RegisterToken ==
    /\ pc = "prepare_tokens"
    /\ tokenizer' = AddToken(tokenizer, mod_tokens[zip_i + 1])
    /\ mod_tokens_id' = Append(mod_tokens_id, IdOf(tokenizer', mod_tokens[zip_i + 1]))
    /\ init_tokens_id' = Append(init_tokens_id,
                                EncodeFirst(tokenizer', init_tokens[zip_i + 1]))
    /\ IF zip_i + 1 < Min(Len(mod_tokens), Len(init_tokens))
       THEN /\ zip_i' = zip_i + 1
            /\ pc' = "prepare_tokens"
       ELSE /\ zip_i' = 0
            /\ pc' = "resize"
    /\ UNCHANGED <<a, num_images, sampler_ok, loaded, delta_loaded, token_embeds,
                   with_prior, mod_tokens, init_tokens, optimizer, epoch_steps,
                   num_epochs, global_step, epoch, step, batch, bsize, grads,
                   index_no_updates, ckpts, samples, params, loss>>

\* lines 94-97
ResizeEmbeddings ==
    /\ pc = "resize"
    /\ \E fresh \in FreshRows :
          token_embeds' = Resize(token_embeds, Size(tokenizer), fresh)
    /\ pc' = "init_rows"
    /\ UNCHANGED <<a, num_images, sampler_ok, loaded, delta_loaded, tokenizer,
                   with_prior, mod_tokens, init_tokens, mod_tokens_id, init_tokens_id,
                   optimizer, epoch_steps, num_epochs, global_step, epoch, step, batch,
                   bsize, grads, index_no_updates, ckpts, samples, zip_i, params, loss>>

\* line 99 with the two sides exchanged (a faulty variant)
CopyRow_Reversed(emb, x, y) == [emb EXCEPT ![y] = emb[x]]

\* line 99: token_embeds[x] = token_embeds[y]
CopyRow(emb, x, y) == [emb EXCEPT ![x] = emb[y]]

\* lines 98-99, one pass of the loop over zip(mod_tokens_id, init_tokens_id)
InitRow ==
    /\ pc = "init_rows"
    /\ token_embeds' = CopyRow(token_embeds, mod_tokens_id[zip_i + 1],
                               init_tokens_id[zip_i + 1])
    /\ IF zip_i + 1 < Min(Len(mod_tokens_id), Len(init_tokens_id))
       THEN /\ zip_i' = zip_i + 1
            /\ pc' = "init_rows"
       ELSE /\ zip_i' = 0
            /\ pc' = "data"
    /\ UNCHANGED <<a, num_images, sampler_ok, loaded, delta_loaded, tokenizer,
                   with_prior, mod_tokens, init_tokens, mod_tokens_id, init_tokens_id,
                   optimizer, epoch_steps, num_epochs, global_step, epoch, step, batch,
                   bsize, grads, index_no_updates, ckpts, samples, params, loss>>

\* --------------------------------------------------- setup, lines 101-162
\* torch.utils.data.DataLoader(..., batch_size, shuffle=True), drop_last left
\* at its default False: len(train_dataloader)
LoaderLen(n, b) == Ceil(n, b)

\* the examples of the s-th batch (s from 0) of an epoch; shuffle=True only
\* permutes which dataset items they are
BatchExamples(n, b, s) == [j \in 1..Min(b, n - s * b) |-> s * b + j]

\* lines 106-114 without lines 109-111 (a faulty variant)
collate_fn_NoPrior(examples, wp) ==
    LET inst == [j \in DOMAIN examples |-> <<"instance", examples[j]>>]
    IN  [input_ids |-> inst, images |-> inst]

\* lines 106-114 with the class examples put first (a faulty variant)
collate_fn_ClassFirst(examples, wp) ==
    LET inst == [j \in DOMAIN examples |-> <<"instance", examples[j]>>]
        cls  == [j \in DOMAIN examples |-> <<"class", examples[j]>>]
    IN  [input_ids |-> IF wp THEN cls \o inst ELSE inst,
         images    |-> IF wp THEN cls \o inst ELSE inst]

\* lines 106-114; an entry is <<kind, dataset item>>
collate_fn(examples, wp) ==
    LET inst == [j \in DOMAIN examples |-> <<"instance", examples[j]>>]
        cls  == [j \in DOMAIN examples |-> <<"class", examples[j]>>]
    IN  [input_ids |-> IF wp THEN inst \o cls ELSE inst,
         images    |-> IF wp THEN inst \o cls ELSE inst]

\* lines 101-115: the dataset and its loader are built (they hold no state
\* of their own here: the loader is re-read at every epoch)
MakeData ==
    /\ pc = "data"
    /\ pc' = "optimization"
    /\ UNCHANGED <<a, num_images, sampler_ok, loaded, delta_loaded, tokenizer,
                   token_embeds, with_prior, mod_tokens, init_tokens, mod_tokens_id,
                   init_tokens_id, optimizer, epoch_steps, num_epochs, global_step,
                   epoch, step, batch, bsize, grads, index_no_updates, ckpts, samples,
                   zip_i, params, loss>>

\* lines 122 and 125 with the tests exchanged (a faulty variant)
AttnParams_Swapped(fm) ==
    IF fm = "crossattn"
    THEN {p \in UnetParams : \/ InName(<<"attn2", "to_k">>, Tail(p))
                             \/ InName(<<"attn2", "to_v">>, Tail(p))}
    ELSE {p \in UnetParams : InName(<<"attn2">>, Tail(p))}

\* lines 120-125: the unet.named_parameters() selected in custom mode
AttnParams(fm) ==
    IF fm = "crossattn"
    THEN {p \in UnetParams : InName(<<"attn2">>, Tail(p))}
    ELSE {p \in UnetParams : \/ InName(<<"attn2", "to_k">>, Tail(p))
                             \/ InName(<<"attn2", "to_v">>, Tail(p))}

\* lines 118-125: params_to_optimize
ParamsToOptimize(type, fm) ==
    IF type = "text" THEN InputEmbeddings ELSE InputEmbeddings \cup AttnParams(fm)

\* lines 117-127: torch.optim.AdamW(params_to_optimize, lr=a.lr, ...); the
\* embedding table is among the parameters in every mode
MakeOptimizer ==
    /\ pc = "optimization"
    /\ optimizer' = [lr |-> a.lr, exp_avg |-> [i \in DOMAIN token_embeds |-> 0],
                     t |-> 0, built |-> TRUE,
                     params |-> ParamsToOptimize(a.type, a.freeze_model)]
    /\ pc' = "scale_lr"
    /\ UNCHANGED <<a, num_images, sampler_ok, loaded, delta_loaded, tokenizer,
                   token_embeds, with_prior, mod_tokens, init_tokens, mod_tokens_id,
                   init_tokens_id, epoch_steps, num_epochs, global_step, epoch, step,
                   batch, bsize, grads, index_no_updates, ckpts, samples,
                   zip_i, params, loss>>

\* lines 133-136
ScaledLr(x, wp) ==
    IF x.scale_lr THEN x.lr * x.batch_size * (IF wp THEN 2 ELSE 1) ELSE x.lr

\* lines 129-136
ScaleLr ==
    /\ pc = "scale_lr"
    /\ a' = [a EXCEPT !.lr = ScaledLr(a, with_prior)]
    /\ pc' = "cast"
    /\ UNCHANGED <<num_images, sampler_ok, loaded, delta_loaded, tokenizer,
                   token_embeds, with_prior, mod_tokens, init_tokens, mod_tokens_id,
                   init_tokens_id, optimizer, epoch_steps, num_epochs, global_step,
                   epoch, step, batch, bsize, grads, index_no_updates, ckpts, samples,
                   zip_i, params, loss>>

\* util.finetune.custom_diff on one parameter: the selected attention
\* parameters stay trainable, every other parameter of the backbone is marked
\* non-trainable
CustomDiff(r, name, fm) ==
    IF Under(<<"unet">>, name) THEN [r EXCEPT !.requires_grad = (name \in AttnParams(fm))]
    ELSE r

\* lines 140-143: the image encoder and the text encoder's frozen parts
FreezeInference(r, name) ==
    LET r1 == RequiresGrad(To(r, name, <<"vae">>, "float16"), name, <<"vae">>, FALSE)
        r2 == RequiresGrad(r1, name, <<"text_encoder", "text_model", "encoder">>, FALSE)
        r3 == RequiresGrad(r2, name, <<"text_encoder", "text_model", "final_layer_norm">>,
                           FALSE)
    IN  RequiresGrad(r3, name, <<"text_encoder", "text_model", "embeddings",
                                 "position_embedding">>, FALSE)

\* lines 144-148: the backbone, frozen (text) or wrapped (custom)
PrepareUnet(r, name, type, fm) ==
    IF type = "text" THEN RequiresGrad(r, name, <<"unet">>, FALSE)
    ELSE CustomDiff(r, name, fm)

\* lines 144, 146, 149: unet_dtype
UnetDtype(type) == IF type = "text" THEN "float16" ELSE "float32"

\* line 152 left out (a faulty variant)
CastTrained_NoTextEncoder(r, name, type) == To(r, name, <<"unet">>, UnetDtype(type))

\* lines 151-152: unet.to(dtype=unet_dtype), text_encoder.to(dtype=torch.float32)
CastTrained(r, name, type) ==
    To(To(r, name, <<"unet">>, UnetDtype(type)), name, <<"text_encoder">>, "float32")

\* line 150: unet0 is loaded in custom mode only
LoadUnet0(type) == IF type = "text" THEN {} ELSE Unet0Params

\* lines 138-152: in custom mode the second copy of the backbone is loaded
CastModules ==
    /\ pc = "cast"
    /\ loaded' = IF a.type = "text" THEN loaded ELSE loaded \cup {"unet0"}
    /\ params' = [p \in DOMAIN params \cup LoadUnet0(a.type) |->
                      IF p \in DOMAIN params
                      THEN CastTrained(PrepareUnet(FreezeInference(params[p], p), p,
                                                   a.type, a.freeze_model), p, a.type)
                      ELSE Pretrained(Unet0Params)[p]]
    /\ pc' = "init_loop"
    /\ UNCHANGED <<a, num_images, sampler_ok, delta_loaded, tokenizer, token_embeds,
                   with_prior, mod_tokens, init_tokens, mod_tokens_id, init_tokens_id,
                   optimizer, epoch_steps, num_epochs, global_step, epoch, step, batch,
                   bsize, grads, index_no_updates, ckpts, samples,
                   zip_i, loss>>

\* line 158
NumEpochs(ts, es) == Ceil(ts, es)

\* lines 156-162
InitLoop ==
    /\ pc = "init_loop"
    /\ epoch_steps' = LoaderLen(num_images, a.batch_size)
    /\ num_epochs' = NumEpochs(a.train_steps, epoch_steps')
    /\ global_step' = 0
    /\ epoch' = 0
    /\ pc' = "epoch_head"
    /\ UNCHANGED <<a, num_images, sampler_ok, loaded, delta_loaded, tokenizer,
                   token_embeds, with_prior, mod_tokens, init_tokens, mod_tokens_id,
                   init_tokens_id, optimizer, step, batch, bsize, grads,
                   index_no_updates, ckpts, samples,
                   zip_i, params, loss>>

\* ------------------------------------------- training loop, lines 163-221
\* line 163-165: for epoch in range(num_epochs)
EpochHead ==
    /\ pc = "epoch_head"
    /\ IF epoch < num_epochs
       THEN /\ step' = 0
            /\ pc' = "batch_head"
       ELSE /\ step' = step
            /\ pc' = "final_save"
    /\ UNCHANGED <<a, num_images, sampler_ok, loaded, delta_loaded, tokenizer,
                   token_embeds, with_prior, mod_tokens, init_tokens, mod_tokens_id,
                   init_tokens_id, optimizer, epoch_steps, num_epochs, global_step,
                   epoch, batch, bsize, grads, index_no_updates, ckpts, samples,
                   zip_i, params, loss>>

\* line 166: for step, batch in enumerate(train_dataloader); an exhausted
\* loader ends the epoch
NextBatch ==
    /\ pc = "batch_head"
    /\ IF step < LoaderLen(num_images, a.batch_size)
       THEN /\ batch' = collate_fn(BatchExamples(num_images, a.batch_size, step),
                                   with_prior)
            /\ epoch' = epoch
            /\ pc' = "forward"
       ELSE /\ batch' = batch
            /\ epoch' = epoch + 1
            /\ pc' = "epoch_head"
    /\ UNCHANGED <<a, num_images, sampler_ok, loaded, delta_loaded, tokenizer,
                   token_embeds, with_prior, mod_tokens, init_tokens, mod_tokens_id,
                   init_tokens_id, optimizer, epoch_steps, num_epochs, global_step,
                   step, bsize, grads, index_no_updates, ckpts, samples,
                   zip_i, params, loss>>

\* lines 180-181: tensor.chunk(2) along the batch dimension
Chunk2(rows) ==
    <<SubSeq(rows, 1, Ceil(Len(rows), 2)),
      SubSeq(rows, Ceil(Len(rows), 2) + 1, Len(rows))>>

\* lines 179-185: the rows of the batch under each F.mse_loss term; row i of
\* model_pred and of target is row i of batch["images"]
LossTerms(rows, wp) == IF wp THEN Chunk2(rows) ELSE <<rows>>

\* lines 167-185: latents, noise, prediction and loss; bsize = latents.shape[0]
Forward ==
    /\ pc = "forward"
    /\ bsize' = Len(batch.images)
    /\ loss' = LossTerms(batch.images, with_prior)
    /\ pc' = "backward"
    /\ UNCHANGED <<a, num_images, sampler_ok, loaded, delta_loaded, tokenizer,
                   token_embeds, with_prior, mod_tokens, init_tokens, mod_tokens_id,
                   init_tokens_id, optimizer, epoch_steps, num_epochs, global_step,
                   epoch, step, batch, grads, index_no_updates, ckpts, samples,
                   zip_i, params>>

\* line 187: loss.backward() leaves a gradient on every row of the table
Backward ==
    /\ pc = "backward"
    /\ \E g \in Grads : grads' = [i \in DOMAIN token_embeds |-> g]
    /\ pc' = "mask"
    /\ UNCHANGED <<a, num_images, sampler_ok, loaded, delta_loaded, tokenizer,
                   token_embeds, with_prior, mod_tokens, init_tokens, mod_tokens_id,
                   init_tokens_id, optimizer, epoch_steps, num_epochs, global_step,
                   epoch, step, batch, bsize, index_no_updates, ckpts, samples,
                   zip_i, params, loss>>

\* lines 191-193: arange(len(tokenizer)) != ids[0], then for i in
\* range(len(ids[1:])) the conjunct arange != ids[i]; Python's ids[i] is
\* ids[i + 1] here
NoUpdates(ntok, ids) ==
    [j \in 0..(ntok - 1) |->
        /\ j # ids[1]
        /\ \A i \in 0..(Len(ids) - 2) : j # ids[i + 1]]

\* line 194 zeroing the rows outside the mask (a faulty variant)
ZeroRows_Inverted(g, mask) == [j \in DOMAIN g |-> IF mask[j] THEN g[j] ELSE 0]

\* line 194
ZeroRows(g, mask) == [j \in DOMAIN g |-> IF mask[j] THEN 0 ELSE g[j]]

\* lines 189-194 without line 194: the mask is built and not applied (a
\* faulty variant)
MaskGrads_NotApplied ==
    /\ pc = "mask"
    /\ index_no_updates' = NoUpdates(Size(tokenizer), mod_tokens_id)
    /\ pc' = "opt_step"
    /\ UNCHANGED <<a, num_images, sampler_ok, loaded, delta_loaded, tokenizer,
                   token_embeds, with_prior, mod_tokens, init_tokens, mod_tokens_id,
                   init_tokens_id, optimizer, epoch_steps, num_epochs, global_step,
                   epoch, step, batch, bsize, grads, ckpts, samples,
                   zip_i, params, loss>>

\* lines 189-194
MaskGrads ==
    /\ pc = "mask"
    /\ index_no_updates' = NoUpdates(Size(tokenizer), mod_tokens_id)
    /\ grads' = ZeroRows(grads, index_no_updates')
    /\ pc' = "opt_step"
    /\ UNCHANGED <<a, num_images, sampler_ok, loaded, delta_loaded, tokenizer,
                   token_embeds, with_prior, mod_tokens, init_tokens, mod_tokens_id,
                   init_tokens_id, optimizer, epoch_steps, num_epochs, global_step,
                   epoch, step, batch, bsize, ckpts, samples,
                   zip_i, params, loss>>

\* torch.optim.AdamW.step, first moment: exp_avg.lerp_(grad, 1 - beta1).
\* exp_avg is held exactly, scaled by Beta1Den^t after t steps.  The second
\* moment only scales the update and is not held.
AdamExpAvg(m, g, t) == Beta1Num * m + (Beta1Den - Beta1Num) * g * Pow(Beta1Den, t)

\* torch.optim.AdamW.step on one entry: the decoupled decay
\* p.mul_(1 - lr * weight_decay), then p.addcdiv_(exp_avg, denom, -step_size).
\* The quotient exp_avg / denom is 0 when exp_avg is 0 and is otherwise taken
\* at magnitude 1 (its exact value on the first non-zero gradient).
AdamWParam(p, lr, m) ==
    RoundDiv(p * (WeightDecayDen - lr * WeightDecayNum), WeightDecayDen) - lr * Sign(m)

\* line 196
OptStep ==
    /\ pc = "opt_step"
    /\ LET m2 == [i \in DOMAIN token_embeds |->
                     AdamExpAvg(optimizer.exp_avg[i], grads[i], optimizer.t)]
       IN  /\ optimizer' = [optimizer EXCEPT !.exp_avg = m2, !.t = @ + 1]
           /\ token_embeds' = [i \in DOMAIN token_embeds |->
                                  AdamWParam(token_embeds[i], optimizer.lr, m2[i])]
    /\ pc' = "zero_grad"
    /\ UNCHANGED <<a, num_images, sampler_ok, loaded, delta_loaded, tokenizer,
                   with_prior, mod_tokens, init_tokens, mod_tokens_id, init_tokens_id,
                   epoch_steps, num_epochs, global_step, epoch, step, batch, bsize,
                   grads, index_no_updates, ckpts, samples,
                   zip_i, params, loss>>

\* line 197: optimizer.zero_grad()
ZeroGrad ==
    /\ pc = "zero_grad"
    /\ grads' = [i \in DOMAIN grads |-> 0]
    /\ pc' = "count_step"
    /\ UNCHANGED <<a, num_images, sampler_ok, loaded, delta_loaded, tokenizer,
                   token_embeds, with_prior, mod_tokens, init_tokens, mod_tokens_id,
                   init_tokens_id, optimizer, epoch_steps, num_epochs, global_step,
                   epoch, step, batch, bsize, index_no_updates, ckpts, samples,
                   zip_i, params, loss>>

\* line 200 testing the step about to be taken (a faulty variant)
SaveDue_Early(gs, ss) == (gs + 1) % ss = 0

\* line 200: if global_step % a.save_step == 0
SaveDue(gs, ss) == gs % ss = 0

\* lines 199-200: global_step += 1 and the test that opens the periodic save
CountStep ==
    /\ pc = "count_step"
    /\ global_step' = global_step + 1
    /\ pc' = IF SaveDue(global_step', a.save_step) THEN "save" ELSE "progress"
    /\ UNCHANGED <<a, num_images, sampler_ok, loaded, delta_loaded, tokenizer,
                   token_embeds, with_prior, mod_tokens, init_tokens, mod_tokens_id,
                   init_tokens_id, optimizer, epoch_steps, num_epochs, epoch, step,
                   batch, bsize, grads, index_no_updates, ckpts, samples,
                   zip_i, params, loss>>

\* lines 201-206 and 223-228: one call of save_embeds or save_delta; name is
\* the step in the file name (0 for the final file, which carries none)
CheckpointWrite(name, periodic) ==
    [name  |-> name,
     kind  |-> IF a.type = "text" THEN "pt" ELSE "ckpt",
     rows  |-> [k \in DOMAIN mod_tokens_id |-> token_embeds[mod_tokens_id[k]]],
     unet0 |-> (a.type # "text" /\ periodic)]

\* lines 200-206
SaveCheckpoint ==
    /\ pc = "save"
    /\ ckpts' = Append(ckpts, CheckpointWrite(global_step, TRUE))
    /\ pc' = "sample"
    /\ UNCHANGED <<a, num_images, sampler_ok, loaded, delta_loaded, tokenizer,
                   token_embeds, with_prior, mod_tokens, init_tokens, mod_tokens_id,
                   init_tokens_id, optimizer, epoch_steps, num_epochs, global_step,
                   epoch, step, batch, bsize, grads, index_no_updates, samples,
                   zip_i, params, loss>>

\* lines 208-216: no handler surrounds the pipeline call, so an exception
\* raised by it leaves main()
Sample ==
    /\ pc = "sample"
    /\ IF sampler_ok
       THEN /\ samples' = samples \cup {global_step}
            /\ pc' = "progress"
       ELSE /\ samples' = samples
            /\ pc' = "Raised"
    /\ UNCHANGED <<a, num_images, sampler_ok, loaded, delta_loaded, tokenizer,
                   token_embeds, with_prior, mod_tokens, init_tokens, mod_tokens_id,
                   init_tokens_id, optimizer, epoch_steps, num_epochs, global_step,
                   epoch, step, batch, bsize, grads, index_no_updates, ckpts,
                   zip_i, params, loss>>

\* line 220 with > for >= (a faulty variant)
BreakNow_Late(gs, ts) == gs > ts

\* line 220
BreakNow(gs, ts) == gs >= ts

\* lines 218-221: break leaves the inner loop only; the epoch loop goes on
Progress ==
    /\ pc = "progress"
    /\ IF BreakNow(global_step, a.train_steps)
       THEN /\ epoch' = epoch + 1
            /\ step' = step
            /\ pc' = "epoch_head"
       ELSE /\ epoch' = epoch
            /\ step' = step + 1
            /\ pc' = "batch_head"
    /\ UNCHANGED <<a, num_images, sampler_ok, loaded, delta_loaded, tokenizer,
                   token_embeds, with_prior, mod_tokens, init_tokens, mod_tokens_id,
                   init_tokens_id, optimizer, epoch_steps, num_epochs, global_step,
                   batch, bsize, grads, index_no_updates, ckpts, samples,
                   zip_i, params, loss>>

\* lines 223-228
FinalSave ==
    /\ pc = "final_save"
    /\ ckpts' = Append(ckpts, CheckpointWrite(0, FALSE))
    /\ pc' = "Completed"
    /\ UNCHANGED <<a, num_images, sampler_ok, loaded, delta_loaded, tokenizer,
                   token_embeds, with_prior, mod_tokens, init_tokens, mod_tokens_id,
                   init_tokens_id, optimizer, epoch_steps, num_epochs, global_step,
                   epoch, step, batch, bsize, grads, index_no_updates, samples,
                   zip_i, params, loss>>

Next ==
    \/ ParseArgs
    \/ LoadModels \/ LoadDelta \/ ParseInputs
    \/ RegisterToken \/ ResizeEmbeddings \/ InitRow
    \/ MakeData \/ MakeOptimizer \/ ScaleLr \/ CastModules \/ InitLoop
    \/ EpochHead \/ NextBatch \/ Forward \/ Backward \/ MaskGrads \/ OptStep
    \/ ZeroGrad \/ CountStep \/ SaveCheckpoint \/ Sample \/ Progress \/ FinalSave

Spec == Init /\ [][Next]_vars

\* main() is one sequential process: it keeps running until it returns or raises
LiveSpec == Spec /\ WF_vars(Next)

\* ------------------------------------------------------------ properties
Range(s) == {s[i] : i \in DOMAIN s}

Distinct(seq) == Cardinality(Range(seq)) = Len(seq)

\* main() is past lines 87-99
PostExtension ==
    pc \in {"data", "optimization", "scale_lr", "cast", "init_loop", "epoch_head",
            "batch_head", "forward", "backward", "mask", "opt_step", "zero_grad",
            "count_step", "save", "sample", "progress", "final_save", "Completed", "Raised"}

\* past the extension, and optimizer.step() has not run yet
BeforeFirstStep ==
    \/ pc \in {"data", "optimization", "scale_lr", "cast", "init_loop"}
    \/ /\ pc \in {"epoch_head", "batch_head", "forward", "backward", "mask", "opt_step"}
       /\ global_step = 0

\* the modifier tokens are pairwise distinct and none is in the vocabulary
\* the extension starts from
FreshTokens ==
    /\ Distinct(mod_tokens)
    /\ \A k \in DOMAIN mod_tokens :
          /\ mod_tokens[k] \notin Range(PretrainedVocab)
          /\ delta_loaded => mod_tokens[k] \notin Range(CkptFile.modifier_token)

PriorFactor == IF with_prior THEN 2 ELSE 1

FinalWritten == \E k \in DOMAIN ckpts : ckpts[k].name = 0

\* C1 (as claimed): once the vocabulary is extended, no step of the run
\* changes the embedding row of a token id that is not a new-token id.
C1_PretrainedRowsNeverChange ==
    [][PostExtension =>
          \A i \in DOMAIN token_embeds :
              i \notin Range(mod_tokens_id) => token_embeds'[i] = token_embeds[i]]_vars

\* C2 (as claimed): when the new-token ids are distinct, the mask handed to
\* the optimizer step leaves every new-token id's gradient row un-zeroed.
C2_NewTokenGradsKept ==
    (pc = "opt_step" /\ Distinct(mod_tokens_id)) =>
        \A k \in DOMAIN mod_tokens_id : ~index_no_updates[mod_tokens_id[k]]

\* C3: global_step never exceeds train_steps; the break is taken in the last
\* of the ceil(train_steps / steps_per_epoch) epochs; the loop is left, and
\* the run completed, only with global_step = train_steps; and a run in which
\* nothing raises reaches Completed.
C3_ExactlyTrainSteps ==
    /\ [](global_step <= a.train_steps)
    /\ []((pc = "progress" /\ BreakNow(global_step, a.train_steps)) =>
             (epoch = num_epochs - 1 /\ num_epochs = Ceil(a.train_steps, epoch_steps)))
    /\ [](pc \in {"final_save", "Completed"} => global_step = a.train_steps)
    /\ ((pc = "epoch_head" /\ global_step = 0 /\ sampler_ok) ~> (pc = "Completed"))

\* a run of 3 steps over epochs of 2 has completed: the break fell inside
\* the second epoch
C3_Witness ==
    /\ pc = "Completed"
    /\ epoch_steps = 2
    /\ a.train_steps = 3
    /\ global_step = 3
    /\ epoch = 2

\* C4 (as claimed): a run whose list lengths disagree fails, and at the
\* failure no component has been loaded and no checkpoint applied.
C4_FailsBeforeLoading ==
    /\ ~CountsAgree(a) => pc \in {"load_models", "load_delta", "parse_inputs",
                                  "AssertionError"}
    /\ pc = "AssertionError" => (loaded = {} /\ ~delta_loaded)

\* C5 (as claimed): with scale_lr on, the optimizer holds the configured lr
\* times batch_size, times 2 under prior preservation.
C5_OptimizerUsesScaledLr ==
    (optimizer.built /\ a.scale_lr) =>
        optimizer.lr = LR * a.batch_size * PriorFactor

\* C6 (as claimed): when a checkpoint was loaded, its modifier tokens' rows
\* are what the table holds as the first optimizer step runs.
C6_ResumedRowsSurviveSetup ==
    (delta_loaded /\ pc = "opt_step" /\ global_step = 0) =>
        \A k \in DOMAIN CkptFile.modifier_token :
            token_embeds[IdOf(tokenizer, CkptFile.modifier_token[k])]
                = CkptFile.embeds[k]

\* C7 (as claimed): however the run ends once the loop has started, sample
\* failure included, all train_steps steps have run and the final checkpoint
\* is written.
C7_SampleFailureKeepsTraining ==
    pc \in {"Completed", "Raised"} =>
        (global_step = a.train_steps /\ FinalWritten)

\* C8: for fresh, distinct modifier tokens, from the extension until the first
\* optimizer step every new-token row equals its anchor's row and the
\* pretrained rows hold their pretrained values; the extension itself changes
\* no row that existed before it.
C8_NewRowsEqualAnchors ==
    /\ []((BeforeFirstStep /\ FreshTokens) =>
             /\ \A k \in DOMAIN mod_tokens_id :
                   token_embeds[mod_tokens_id[k]] = token_embeds[init_tokens_id[k]]
             /\ \A i \in DOMAIN PretrainedEmbeds :
                   token_embeds[i] = PretrainedEmbeds[i])
    /\ [][(pc \in {"prepare_tokens", "resize", "init_rows"} /\ FreshTokens) =>
             \A i \in DOMAIN token_embeds :
                 i \notin Range(mod_tokens_id) => token_embeds'[i] = token_embeds[i]]_vars

\* two fresh tokens, the second anchored on the first, set up and not yet trained
C8_Witness ==
    /\ pc = "init_loop"
    /\ FreshTokens
    /\ Len(mod_tokens_id) = 2
    /\ init_tokens_id[2] = mod_tokens_id[1]
    /\ token_embeds[mod_tokens_id[2]] = PretrainedEmbeds[init_tokens_id[1]]

\* C9 (as claimed): a pass of the registration loop goes on only with a token
\* id it has freshly allocated (one that was not in the vocabulary).
C9_ExistingTokenRejected ==
    [][(pc = "prepare_tokens" /\ pc' \in {"prepare_tokens", "resize"}) =>
          mod_tokens_id'[Len(mod_tokens_id')] \notin DOMAIN tokenizer]_vars

\* C10 (as claimed): the loss step always sees batch_size examples, doubled
\* under prior preservation.
C10_BatchSizeAsConfigured ==
    pc = "backward" => bsize = a.batch_size * PriorFactor

\* C10 (amended): the loss step sees k examples, doubled under prior
\* preservation, where k is batch_size except on the last batch of an epoch
\* over a dataset whose size batch_size does not divide, where k is the
\* remainder.
C10_BatchSizeOfDrawnExamples ==
    pc = "backward" =>
        LET partial == step = epoch_steps - 1 /\ num_images % a.batch_size # 0
            k == IF partial THEN num_images % a.batch_size ELSE a.batch_size
        IN  bsize = k * PriorFactor

\* the only batch of a later epoch is partial and carries prior examples
C10_Witness ==
    /\ pc = "backward"
    /\ with_prior
    /\ epoch >= 1
    /\ step = epoch_steps - 1
    /\ num_images % a.batch_size # 0
    /\ bsize = 2 * (num_images % a.batch_size)

\* the state of the training loop's state machine that main() is in
Phase ==
    IF pc \in {"parse_args", "load_models", "load_delta", "parse_inputs",
               "prepare_tokens", "resize", "init_rows", "data", "optimization",
               "scale_lr", "cast", "init_loop"} THEN "Idle"
    ELSE IF pc \in {"epoch_head", "batch_head", "forward", "backward", "mask",
                    "opt_step", "zero_grad", "count_step", "progress",
                    "final_save"} THEN "Running"
    ELSE IF pc \in {"save", "sample"} THEN "Saving"
    ELSE IF pc = "Completed" THEN "Completed"
    ELSE "Failed"

\* the steps k of 1..n at which a periodic save is due
DueSteps(n) == {k \in 1..n : k % a.save_step = 0}

\* the step numbers in the names of the periodic checkpoints written so far
PeriodicNames == {ckpts[k].name : k \in {j \in DOMAIN ckpts : ckpts[j].name # 0}}

\* C11: a completed run has written one periodic checkpoint, and its sample
\* images, at each step of 1..train_steps divisible by save_step and at no
\* other, and one final checkpoint after them; a run that does not fail
\* moves Idle -> Running -> (Saving -> Running)* -> Completed and nothing
\* follows Completed.
C11_CheckpointSchedule ==
    /\ [](pc = "Completed" =>
             /\ PeriodicNames = DueSteps(a.train_steps)
             /\ samples = DueSteps(a.train_steps)
             /\ Len(ckpts) = Cardinality(DueSteps(a.train_steps)) + 1
             /\ ckpts[Len(ckpts)].name = 0)
    /\ [][Phase' # "Failed" =>
             \/ Phase' = Phase
             \/ <<Phase, Phase'>> \in {<<"Idle", "Running">>, <<"Running", "Saving">>,
                                       <<"Saving", "Running">>,
                                       <<"Running", "Completed">>}]_vars
    /\ [][pc = "Completed" => pc' = "Completed"]_vars

\* a run whose train_steps is a multiple of save_step has completed with
\* two periodic checkpoints and the final one
C11_Witness ==
    /\ pc = "Completed"
    /\ a.train_steps % a.save_step = 0
    /\ Len(ckpts) = 3

\* main() is past lines 138-152
AfterSetup ==
    pc \in {"init_loop", "epoch_head", "batch_head", "forward", "backward", "mask",
            "opt_step", "zero_grad", "count_step", "save", "sample", "progress",
            "final_save", "Completed", "Raised"}

\* the module holds a parameter that was handed to the optimizer
Trained(module) == \E q \in optimizer.params : q[1] = module

C13_OtherRowsZeroAtStep ==
    /\ [](pc = "opt_step" =>
             \A i \in DOMAIN grads : i \notin Range(mod_tokens_id) => grads[i] = 0)
    /\ [][pc = "mask" =>
             /\ DOMAIN index_no_updates' = Ids(tokenizer)
             /\ \A i \in Ids(tokenizer) :
                    i \notin Range(mod_tokens_id) => index_no_updates'[i]]_vars
    /\ [][PostExtension => mod_tokens_id' = mod_tokens_id]_vars

\* the second step of a run is about to update: the pretrained rows' gradients
\* are zero and the new token's is not
C13_Witness ==
    /\ pc = "opt_step"
    /\ global_step = 1
    /\ \E i \in Range(mod_tokens_id) : grads[i] # 0
    /\ \A i \in DOMAIN PretrainedEmbeds : grads[i] = 0

\* C14 (as claimed): in custom mode every checkpoint write, periodic or
\* final, is handed unet0, and unet0 stays as it was loaded.
C14_EveryWriteGivenUnet0 ==
    /\ \A k \in DOMAIN ckpts : ckpts[k].kind = "ckpt" => ckpts[k].unet0
    /\ "unet0" \in loaded =>
           \A p \in Unet0Params : params[p] = Pretrained(Unet0Params)[p]

\* the order of the statements of one pass of the loop body
StepOrder ==
    {<<"forward", "backward">>, <<"backward", "mask">>, <<"mask", "opt_step">>,
     <<"opt_step", "zero_grad">>, <<"zero_grad", "count_step">>,
     <<"count_step", "save">>, <<"count_step", "progress">>,
     <<"save", "sample">>, <<"sample", "progress">>, <<"sample", "Raised">>}

\* C15: each pass of the loop body runs forward-loss, backward, masking,
\* optimizer step, gradient reset, global_step increment and then the
\* periodic checkpoint and samples, in that order; the optimizer steps only
\* right after the masking, on gradients whose masked rows are zero; and a
\* periodic checkpoint named k is written when exactly k optimizer steps
\* have been taken, from the embedding rows the k-th step left.
C15_StepOrder ==
    /\ [][(pc \in {"forward", "backward", "mask", "opt_step", "zero_grad",
                   "count_step", "save", "sample"}) => (<<pc, pc'>> \in StepOrder)]_vars
    /\ [][optimizer'.t # optimizer.t =>
             /\ pc = "opt_step"
             /\ optimizer'.t = optimizer.t + 1
             /\ \A i \in DOMAIN grads : index_no_updates[i] => grads[i] = 0]_vars
    /\ [][pc' = "opt_step" => (pc = "mask" /\ grads' = ZeroRows(grads, index_no_updates'))]_vars
    /\ [][global_step' # global_step =>
             (pc = "count_step" /\ global_step' = global_step + 1)]_vars
    /\ [][(pc \in {"zero_grad", "count_step", "save"}) =>
             (token_embeds' = token_embeds /\ optimizer' = optimizer)]_vars
    /\ [](pc \in {"count_step", "save"} => grads = [i \in DOMAIN grads |-> 0])
    /\ [](pc \in {"save", "sample", "progress"} => optimizer.t = global_step)
    /\ [][pc = "save" =>
             /\ ckpts' = Append(ckpts, ckpts'[Len(ckpts')])
             /\ ckpts'[Len(ckpts')].name = optimizer.t
             /\ ckpts'[Len(ckpts')].rows =
                    [k \in DOMAIN mod_tokens_id |-> token_embeds[mod_tokens_id[k]]]]_vars

\* the checkpoint of step 2 has just been written, after two optimizer steps
C15_Witness ==
    /\ pc = "sample"
    /\ a.save_step = 1
    /\ optimizer.t = 2
    /\ Len(ckpts) = 2
    /\ ckpts[2].name = 2

\* C16: the optimizer holds, in text mode, the embedding table alone
\* whatever freeze_model is, and the whole backbone is then frozen; in
\* custom mode with freeze_model 'crossattn', the embedding table and every
\* attn2 projection; in custom mode with any other freeze_model, the
\* embedding table and the attn2 key and value projections only.
C16_OptimizerScopeByMode ==
    /\ optimizer.built =>
           optimizer.params =
               IF a.type = "text" THEN InputEmbeddings
               ELSE IF a.freeze_model = "crossattn"
               THEN InputEmbeddings \cup
                    {<<"unet", "attn2", "to_q">>, <<"unet", "attn2", "to_k">>,
                     <<"unet", "attn2", "to_v">>, <<"unet", "attn2", "to_out">>}
               ELSE InputEmbeddings \cup
                    {<<"unet", "attn2", "to_k">>, <<"unet", "attn2", "to_v">>}
    /\ (AfterSetup /\ a.type = "text") =>
           \A p \in UnetParams : ~params[p].requires_grad

\* a custom run with a freeze_model that is neither named value is in its
\* loop with the key and value projections in the optimizer
C16_Witness ==
    /\ pc = "opt_step"
    /\ a.type = "custom"
    /\ a.freeze_model = "none"
    /\ <<"unet", "attn2", "to_k">> \in optimizer.params
    /\ <<"unet", "attn2", "to_q">> \notin optimizer.params

IsInstance(e) == e[1] = "instance"

IsClass(e) == e[1] = "class"

\* C17: with priors, the collated batch holds the instance examples in its
\* first half and the class examples in its second half, and the loss has
\* two terms, the first over the instance rows and no other, the second
\* over the class rows and no other; without priors the loss has one term
\* over the whole batch.
C17_LossOverHalves ==
    pc = "backward" =>
        IF with_prior
        THEN /\ Len(batch.images) % 2 = 0
             /\ \A i \in DOMAIN batch.images :
                    /\ IsInstance(batch.images[i]) <=> i <= Len(batch.images) \div 2
                    /\ IsClass(batch.images[i]) <=> i > Len(batch.images) \div 2
             /\ batch.input_ids = batch.images
             /\ loss = <<SelectSeq(batch.images, IsInstance),
                         SelectSeq(batch.images, IsClass)>>
             /\ Len(loss[1]) = Len(loss[2])
        ELSE /\ \A i \in DOMAIN batch.images : IsInstance(batch.images[i])
             /\ loss = <<batch.images>>

\* the loss of a batch of two instance and two class examples has been
\* computed
C17_Witness ==
    /\ pc = "backward"
    /\ with_prior
    /\ Len(batch.images) = 4
    /\ Len(loss) = 2
    /\ Len(loss[1]) = 2
====
